---- MODULE Spec2Model ----
(***************************************************************************)
(* The two Playwright verification scripts of jules-scratch/verification:  *)
(*   add_client.py                   run(playwright), lines 3-32           *)
(*   verify_multi_part_devolution.py run(playwright), lines 3-57           *)
(*                                                                         *)
(* Each run is a straight-line Python function: statements before the try  *)
(* (launch, new_page, page.on), the statements of the try body, and the    *)
(* finally block (browser.close()).  A statement is one Playwright call;   *)
(* it either returns or raises.  The web application, which is not part of *)
(* the repository, is the environment: it loads the menu, renders the      *)
(* success banner and raises alert dialogs on its own.                     *)
(***************************************************************************)
EXTENDS Naturals, Sequences, FiniteSets, TLC

VARIABLES
    script,          \* which of the two files is running
    phase,           \* "setup" (before try) | "try" | "finally" | "done"
    pc,              \* index of the next statement within the phase
    exception,       \* the exception run is propagating, or "none"
    browser,         \* "none" | "open" | "closed"
    page,            \* "none" | "open" | "closed"
    launches,        \* calls of chromium.launch that returned a browser
    pagesCreated,    \* calls of browser.new_page that returned a page
    closeCalls,      \* calls of browser.close()
    listeners,       \* events with a listener registered by page.on
    url,             \* the document loaded in the page
    navbar,          \* whether #navbarNav is visible
    banner,          \* text of .alert-success as a sequence of fragments, or Absent
    form,            \* value of every labelled form field of the document
    clicks,          \* buttons clicked, each with the form as it was then
    dialog,          \* "none" | "raised" (event not yet dispatched) | "open"
    dialogsShown,    \* alerts the page raised
    dialogsAccepted, \* alerts accepted by the script's listener
    dialogsDismissed,\* alerts Playwright dismissed for want of a listener
    dialogLog,       \* for each alert, the try-body statement it was raised in
    clock,           \* milliseconds spent in page.wait_for_timeout
    observed,        \* assertions of expect(...) that passed
    files,           \* screenshots written
    trace            \* try-body statements started so far, in order

vars ==
    << script, phase, pc, exception, browser, page, launches, pagesCreated,
       closeCalls, listeners, url, navbar, banner, form, clicks, dialog,
       dialogsShown, dialogsAccepted, dialogsDismissed, dialogLog, clock,
       observed, files, trace, clock >>

\* Number of alert dialogs the application may raise during one run.
MaxDialogs == 2

\* ------------------------------------------------------------------------
\* The statements of the scripts.

Stmt(op, target, value, line) ==
    [op |-> op, target |-> target, value |-> value, line |-> line]

PessoasUrl  == "http://localhost:5173/pages/cadastro-pessoas.html"
CadastroUrl == "http://localhost:5173/pages/cadastro.html"
SuccessText == "Devolução registrada com sucesso!"
ScreenshotPath == "jules-scratch/verification/multi_part_verification.png"

\* A locator: the scope it searches and the label, role name or selector.
\* part1 / part2 are the locators of the two part rows.
part1(label)   == <<".part-row[data-part-index=\"0\"]", label>>
part2(label)   == <<".part-row[data-part-index=\"1\"]", label>>
ByLabel(label) == <<"page", label>>
Button(name)   == <<"button", name>>
Locator(sel)   == <<"page.locator", sel>>
ThePage        == <<"page", "">>
navbarLoc      == Locator("#navbarNav")
success_alert  == Locator(".alert-success")

\* add_client.py without line 10: no listener for "dialog".
AddClientSetupNoDialogListener ==
    << Stmt("launch",   <<"chromium", "">>, "headless", 4),
       Stmt("new_page", <<"browser", "">>,  "",         5),
       Stmt("on",       ThePage,            "console",  8) >>

\* add_client.py, lines 4-10: the statements before the try.
AddClientSetup ==
    << Stmt("launch",   <<"chromium", "">>, "headless", 4),
       Stmt("new_page", <<"browser", "">>,  "",         5),
       Stmt("on",       ThePage,            "console",  8),
       Stmt("on",       ThePage,            "dialog",   10) >>

\* add_client.py, lines 13-28: the try body.
AddClientTry ==
    << Stmt("goto",             ThePage,                  PessoasUrl,    13),
       Stmt("expect_visible",   navbarLoc,                "",            17),
       Stmt("fill",             ByLabel("Nome Completo"), "Test Client", 20),
       Stmt("select_option",    ByLabel("Tipo"),          "Cliente",     21),
       Stmt("click",            Button("Salvar"),         "",            24),
       Stmt("wait_for_timeout", ThePage,                  2000,          28) >>

\* verify_multi_part_devolution.py with a second browser.new_page().
DevolutionSetupTwoPages ==
    << Stmt("launch",   <<"chromium", "">>, "headless", 4),
       Stmt("new_page", <<"browser", "">>,  "",         5),
       Stmt("new_page", <<"browser", "">>,  "",         5) >>

\* verify_multi_part_devolution.py, lines 4-5: the statements before the try.
DevolutionSetup ==
    << Stmt("launch",   <<"chromium", "">>, "headless", 4),
       Stmt("new_page", <<"browser", "">>,  "",         5) >>

\* verify_multi_part_devolution.py, lines 9-14: "1. Arrange: Add a client first".
DevolutionAddClient ==
    << Stmt("goto",             ThePage,                  PessoasUrl,    9),
       Stmt("fill",             ByLabel("Nome Completo"), "Test Client", 10),
       Stmt("select_option",    ByLabel("Tipo"),          "Cliente",     11),
       Stmt("click",            Button("Salvar"),         "",            12),
       Stmt("wait_for_timeout", ThePage,                  2000,          14) >>

\* lines 17-21: "2. Arrange: Go to the devolution registration page."
DevolutionOpenForm ==
    << Stmt("goto",           ThePage,   CadastroUrl, 17),
       Stmt("expect_visible", navbarLoc, "",          21) >>

\* Lines 24-36 with the second row filled before it is added.
DevolutionPartsFilledBeforeAdded ==
    << Stmt("fill",  part1("Código da Peça"),    "PART-001",           28),
       Stmt("fill",  part1("Quantidade"),        "1",                  29),
       Stmt("fill",  part1("Descrição da Peça"), "Part 1 Description", 30),
       Stmt("fill",  part2("Código da Peça"),    "PART-002",           34),
       Stmt("fill",  part2("Quantidade"),        "2",                  35),
       Stmt("fill",  part2("Descrição da Peça"), "Part 2 Description", 36),
       Stmt("click", Button("Adicionar Peça"),   "",                   24) >>

\* lines 24-36: "3. Act: Add a second part", then the details of both parts.
DevolutionParts ==
    << Stmt("click", Button("Adicionar Peça"),   "",                   24),
       Stmt("fill",  part1("Código da Peça"),    "PART-001",           28),
       Stmt("fill",  part1("Quantidade"),        "1",                  29),
       Stmt("fill",  part1("Descrição da Peça"), "Part 1 Description", 30),
       Stmt("fill",  part2("Código da Peça"),    "PART-002",           34),
       Stmt("fill",  part2("Quantidade"),        "2",                  35),
       Stmt("fill",  part2("Descrição da Peça"), "Part 2 Description", 36) >>

\* lines 39-43: "Fill in common details".
DevolutionCommon ==
    << Stmt("select_option", ByLabel("Cliente"),             "Test Client", 39),
       Stmt("fill",          ByLabel("Requisição de Venda"), "REQ-123",     40),
       Stmt("select_option", ByLabel("Ação na Requisição"),  "Alterada",    41),
       Stmt("fill",          ByLabel("Data da Venda"),       "2023-01-01",  42),
       Stmt("fill",          ByLabel("Data da Devolução"),   "2023-01-02",  43) >>

\* Lines 46-54 with the screenshot taken right after the click.
DevolutionSubmitScreenshotFirst ==
    << Stmt("click",          Button("Salvar Devolução"), "",             46),
       Stmt("screenshot",     ThePage,                    ScreenshotPath, 54),
       Stmt("expect_visible", success_alert,              "",             50),
       Stmt("expect_text",    success_alert,              SuccessText,    51) >>

\* lines 46-54: "4. Act: Submit the form", "5. Assert", "6. Screenshot".
DevolutionSubmit ==
    << Stmt("click",          Button("Salvar Devolução"), "",             46),
       Stmt("expect_visible", success_alert,              "",             50),
       Stmt("expect_text",    success_alert,              SuccessText,    51),
       Stmt("screenshot",     ThePage,                    ScreenshotPath, 54) >>

\* verify_multi_part_devolution.py, lines 9-54: the try body.
DevolutionTry ==
    DevolutionAddClient \o DevolutionOpenForm \o DevolutionParts
        \o DevolutionCommon \o DevolutionSubmit

Scripts == {"add_client", "verify_multi_part_devolution"}

Setup(s) == IF s = "add_client" THEN AddClientSetup ELSE DevolutionSetup
Try(s)   == IF s = "add_client" THEN AddClientTry   ELSE DevolutionTry

\* The statements of the phase the run is in, and the one it is about to run.
Prog == IF phase = "setup" THEN Setup(script) ELSE Try(script)
Cur  == Prog[pc]

\* ------------------------------------------------------------------------
\* The document.

\* Every field a statement of either script fills or selects.
Fields ==
    UNION { { Try(s)[i].target : i \in { j \in DOMAIN Try(s) :
                                   Try(s)[j].op \in {"fill", "select_option"} } }
            : s \in Scripts }

\* A freshly loaded document: every field empty.
EmptyForm == [f \in Fields |-> ""]

\* .alert-success is absent, or shows a text made of these fragments.
Absent == << "absent" >>
BannerTexts ==
    { << >>,
      << SuccessText >>,
      << "Sucesso:", SuccessText >>,
      << "Erro ao registrar devolução" >> }

\* expect(locator).to_be_visible(): what the assertion looks at.
Visible(loc) ==
    IF loc = navbarLoc THEN navbar
    ELSE IF loc = success_alert THEN banner # Absent
    ELSE FALSE

\* expect(locator).to_contain_text(text): the text is a part of the element's.
ContainsText(loc, text) ==
    /\ loc = success_alert
    /\ banner # Absent
    /\ \E i \in DOMAIN banner : banner[i] = text

\* ------------------------------------------------------------------------
\* Python's control flow.

\* The statement returned: on to the next one, or out of the block.
Return ==
    /\ exception' = exception
    /\ IF pc < Len(Prog)
       THEN /\ pc' = pc + 1
            /\ phase' = phase
       ELSE /\ pc' = 1
            /\ phase' = (IF phase = "setup" THEN "try" ELSE "finally")

\* try: ... except: pass -- the exception is dropped and the script goes on.
RaiseSwallowed(e) ==
    Return

\* The failed statement is run once more before the exception is let go.
RaiseRetried(e) ==
    /\ exception' = e
    /\ pc' = pc
    /\ phase' = (IF exception = "none" THEN phase
                 ELSE IF phase = "try" THEN "finally" ELSE "done")

\* The statement raised: inside the try the finally block runs next; before
\* the try nothing of run is left to execute.
Raise(e) ==
    /\ exception' = e
    /\ pc' = pc
    /\ phase' = (IF phase = "try" THEN "finally" ELSE "done")

\* A statement is about to run.  Playwright's connection delivers messages in
\* order, so a call completes only after the events raised before its
\* response have been dispatched to the listeners.
Running(op) ==
    /\ phase \in {"setup", "try"}
    /\ Cur.op = op
    /\ dialog # "raised"

\* expect(...).to_contain_text as a soft assertion: it never raises.
OutcomesUncheckedText(s) ==
    CASE s.op \in {"on", "wait_for_timeout", "expect_text"} -> {"return"}
      [] s.op = "expect_visible" ->
            IF Visible(s.target) THEN {"return"} ELSE {"raise"}
      [] OTHER ->
            IF dialog = "open" THEN {"raise"} ELSE {"return", "raise"}

\* The wait replaced by a wait for the dialog, which fails when none came.
OutcomesWaitForDialog(s) ==
    CASE s.op = "on" -> {"return"}
      [] s.op = "wait_for_timeout" ->
            IF dialogsAccepted > 0 THEN {"return"} ELSE {"raise"}
      [] s.op = "expect_visible" ->
            IF Visible(s.target) THEN {"return"} ELSE {"raise"}
      [] s.op = "expect_text" ->
            IF ContainsText(s.target, s.value) THEN {"return"} ELSE {"raise"}
      [] OTHER ->
            IF dialog = "open" THEN {"raise"} ELSE {"return", "raise"}

\* How the call of statement s may end.  A call that drives the page gives up
\* with a TimeoutError when the page does not get there; expect(...) passes
\* exactly when the element shows what is expected before the assertion
\* timeout; wait_for_timeout is a plain timer; page.on only stores a callback.
Outcomes(s) ==
    CASE s.op \in {"on", "wait_for_timeout"} -> {"return"}
      [] s.op = "expect_visible" ->
            IF Visible(s.target) THEN {"return"} ELSE {"raise"}
      [] s.op = "expect_text" ->
            IF ContainsText(s.target, s.value) THEN {"return"} ELSE {"raise"}
      [] OTHER ->
            IF dialog = "open" THEN {"raise"} ELSE {"return", "raise"}

\* The try-body statement being run is appended to the trace.
Traced == IF phase = "try" THEN Append(trace, pc) ELSE trace

\* ------------------------------------------------------------------------
\* Construction.

Init ==
    /\ script \in Scripts
    /\ phase = "setup"
    /\ pc = 1
    /\ exception = "none"
    /\ browser = "none"
    /\ page = "none"
    /\ launches = 0
    /\ pagesCreated = 0
    /\ closeCalls = 0
    /\ listeners = {}
    /\ url = "about:blank"
    /\ navbar = FALSE
    /\ banner = Absent
    /\ form = EmptyForm
    /\ clicks = << >>
    /\ dialog = "none"
    /\ dialogsShown = 0
    /\ dialogsAccepted = 0
    /\ dialogsDismissed = 0
    /\ dialogLog = << >>
    /\ clock = 0
    /\ observed = {}
    /\ files = {}
    /\ trace = << >>

appVars    == << url, navbar, banner, form, clicks >>
dialogVars == << dialog, dialogsShown, dialogsAccepted, dialogsDismissed, dialogLog >>
procVars   == << browser, page, launches, pagesCreated, closeCalls >>

\* ------------------------------------------------------------------------
\* The statements.

\* browser = playwright.chromium.launch(headless=True)
Launch ==
    /\ Running("launch")
    /\ \E o \in Outcomes(Cur) :
         IF o = "return"
         THEN /\ browser' = "open"
              /\ launches' = launches + 1
              /\ Return
         ELSE /\ UNCHANGED << browser, launches >>
              /\ Raise("Error")
    /\ trace' = Traced
    /\ UNCHANGED << script, page, pagesCreated, closeCalls, listeners,
                    appVars, dialogVars, observed, files, clock >>

\* page = browser.new_page()
NewPage ==
    /\ Running("new_page")
    /\ \E o \in Outcomes(Cur) :
         IF o = "return"
         THEN /\ page' = "open"
              /\ pagesCreated' = pagesCreated + 1
              /\ Return
         ELSE /\ UNCHANGED << page, pagesCreated >>
              /\ Raise("Error")
    /\ trace' = Traced
    /\ UNCHANGED << script, browser, launches, closeCalls, listeners,
                    appVars, dialogVars, observed, files, clock >>

\* page.on(event, callback)
PageOn ==
    /\ Running("on")
    /\ listeners' = listeners \cup {Cur.value}
    /\ Return
    /\ trace' = Traced
    /\ UNCHANGED << script, procVars, appVars, dialogVars, observed, files, clock >>

\* page.goto(url): a new document, with nothing rendered yet.
Goto ==
    /\ Running("goto")
    /\ \E o \in Outcomes(Cur) :
         IF o = "return"
         THEN /\ url' = Cur.value
              /\ navbar' = FALSE
              /\ banner' = Absent
              /\ form' = EmptyForm
              /\ Return
         ELSE /\ UNCHANGED << url, navbar, banner, form >>
              /\ Raise("TimeoutError")
    /\ trace' = Traced
    /\ UNCHANGED << script, procVars, listeners, clicks, dialogVars,
                    observed, files, clock >>

\* locator.fill(value)
Fill ==
    /\ Running("fill")
    /\ \E o \in Outcomes(Cur) :
         IF o = "return"
         THEN /\ form' = [form EXCEPT ![Cur.target] = Cur.value]
              /\ Return
         ELSE /\ UNCHANGED form
              /\ Raise("TimeoutError")
    /\ trace' = Traced
    /\ UNCHANGED << script, procVars, listeners, url, navbar, banner, clicks,
                    dialogVars, observed, files, clock >>

\* locator.select_option(value)
SelectOption ==
    /\ Running("select_option")
    /\ \E o \in Outcomes(Cur) :
         IF o = "return"
         THEN /\ form' = [form EXCEPT ![Cur.target] = Cur.value]
              /\ Return
         ELSE /\ UNCHANGED form
              /\ Raise("TimeoutError")
    /\ trace' = Traced
    /\ UNCHANGED << script, procVars, listeners, url, navbar, banner, clicks,
                    dialogVars, observed, files, clock >>

\* page.get_by_role("button", name=...).click()
Click ==
    /\ Running("click")
    /\ \E o \in Outcomes(Cur) :
         IF o = "return"
         THEN /\ clicks' = Append(clicks, [button |-> Cur.target[2],
                                           url |-> url, form |-> form])
              /\ Return
         ELSE /\ UNCHANGED clicks
              /\ Raise("TimeoutError")
    /\ trace' = Traced
    /\ UNCHANGED << script, procVars, listeners, url, navbar, banner, form,
                    dialogVars, observed, files, clock >>

\* page.wait_for_timeout(ms)
WaitForTimeout ==
    /\ Running("wait_for_timeout")
    /\ \E o \in Outcomes(Cur) :
         IF o = "return"
         THEN /\ clock' = clock + Cur.value
              /\ Return
         ELSE /\ UNCHANGED clock
              /\ Raise("Error")
    /\ trace' = Traced
    /\ UNCHANGED << script, procVars, listeners, appVars, dialogVars,
                    observed, files >>

\* expect(locator).to_be_visible()
ExpectVisible ==
    /\ Running("expect_visible")
    /\ \E o \in Outcomes(Cur) :
         IF o = "return" THEN Return ELSE Raise("AssertionError")
    /\ observed' = IF Visible(Cur.target)
                   THEN observed \cup { <<Cur.target[2], "visible">> }
                   ELSE observed
    /\ trace' = Traced
    /\ UNCHANGED << script, procVars, listeners, appVars, dialogVars, files, clock >>

\* expect(locator).to_contain_text(text)
ExpectText ==
    /\ Running("expect_text")
    /\ \E o \in Outcomes(Cur) :
         IF o = "return" THEN Return ELSE Raise("AssertionError")
    /\ observed' = IF ContainsText(Cur.target, Cur.value)
                   THEN observed \cup { <<Cur.target[2], Cur.value>> }
                   ELSE observed
    /\ trace' = Traced
    /\ UNCHANGED << script, procVars, listeners, appVars, dialogVars, files, clock >>

\* page.screenshot(path=...)
Screenshot ==
    /\ Running("screenshot")
    /\ \E o \in Outcomes(Cur) :
         IF o = "return"
         THEN /\ files' = files \cup {Cur.value}
              /\ Return
         ELSE /\ UNCHANGED files
              /\ Raise("Error")
    /\ trace' = Traced
    /\ UNCHANGED << script, procVars, listeners, appVars, dialogVars, observed, clock >>

\* finally: browser.close().  The browser takes its pages with it; the
\* exception of the try body, if any, then leaves run.  Closing is modelled
\* as a call that returns: Playwright's close() tolerates a browser that is
\* already gone.
BrowserClose ==
    /\ phase = "finally"
    /\ browser' = "closed"
    /\ page' = (IF page = "open" THEN "closed" ELSE page)
    /\ closeCalls' = closeCalls + 1
    /\ phase' = "done"
    /\ UNCHANGED << script, pc, exception, launches, pagesCreated, listeners,
                    appVars, dialogVars, observed, files, trace, clock >>

\* ------------------------------------------------------------------------
\* The page's events and the application under test.

\* The application calls alert(): the page is blocked until the dialog is
\* handled.  The page runs the application's code only while the script is in
\* the try body, where every statement is a call on the page.
PageAlert ==
    /\ phase = "try"
    /\ page = "open"
    /\ url # "about:blank"
    /\ dialog = "none"
    /\ dialogsShown < MaxDialogs
    /\ dialog' = "raised"
    /\ dialogsShown' = dialogsShown + 1
    /\ dialogLog' = Append(dialogLog, pc)
    /\ UNCHANGED << script, phase, pc, exception, procVars, listeners, appVars,
                    dialogsAccepted, dialogsDismissed, observed, files, trace, clock >>

\* lambda dialog: None -- a listener that leaves the dialog open.
DialogHandlerLeavesOpen == "ignore"

\* lambda dialog: dialog.accept()
DialogHandler == "accept"

\* The "dialog" event is dispatched: to the script's listener when page.on
\* registered one, and otherwise Playwright dismisses the dialog itself.
DialogEvent ==
    /\ dialog = "raised"
    /\ LET did == IF "dialog" \in listeners THEN DialogHandler ELSE "dismiss"
       IN  /\ dialog' = (IF did \in {"accept", "dismiss"} THEN "none" ELSE "open")
           /\ dialogsAccepted' = dialogsAccepted + (IF did = "accept" THEN 1 ELSE 0)
           /\ dialogsDismissed' = dialogsDismissed + (IF did = "dismiss" THEN 1 ELSE 0)
    /\ UNCHANGED << script, phase, pc, exception, procVars, listeners, appVars,
                    dialogsShown, dialogLog, observed, files, trace, clock >>

\* The menu of the loaded document becomes visible.
MenuLoad ==
    /\ phase = "try"
    /\ page = "open"
    /\ url # "about:blank"
    /\ ~navbar
    /\ navbar' = TRUE
    /\ UNCHANGED << script, phase, pc, exception, procVars, listeners, url,
                    banner, form, clicks, dialogVars, observed, files, trace, clock >>

\* The devolution page shows .alert-success, or completes its text.
BannerRender ==
    /\ phase = "try"
    /\ page = "open"
    /\ url = CadastroUrl
    /\ banner \in {Absent, << >>}
    /\ \E b \in BannerTexts :
         /\ b # banner
         /\ banner' = b
    /\ UNCHANGED << script, phase, pc, exception, procVars, listeners, url,
                    navbar, form, clicks, dialogVars, observed, files, trace, clock >>

ScriptNext ==
    \/ Launch
    \/ NewPage
    \/ PageOn
    \/ Goto
    \/ Fill
    \/ SelectOption
    \/ Click
    \/ WaitForTimeout
    \/ ExpectVisible
    \/ ExpectText
    \/ Screenshot
    \/ BrowserClose

Next ==
    \/ ScriptNext
    \/ DialogEvent
    \/ PageAlert
    \/ MenuLoad
    \/ BannerRender

Spec == Init /\ [][Next]_vars

\* Every call returns or raises in the end, and pending events are dispatched.
FairSpec == Spec /\ WF_vars(ScriptNext) /\ WF_vars(DialogEvent)

\* ------------------------------------------------------------------------
\* Vocabulary of the properties.

AddClient  == script = "add_client"
Devolution == script = "verify_multi_part_devolution"
RunEnded   == phase = "done"
NoException == exception = "none"

\* The try-body statements started so far.
Started == { trace[k] : k \in DOMAIN trace }

\* The try-body statements of the running script with this op and target.
StmtsAt(op, target) ==
    { i \in DOMAIN Try(script) :
        Try(script)[i].op = op /\ Try(script)[i].target = target }

\* Some statement of the set was started before every started one of the other.
AllBefore(first, later) ==
    \A b \in DOMAIN trace : trace[b] \in later =>
        \E a \in 1..(b - 1) : trace[a] \in first

\* The clicks of one button.
ClicksOf(name) == { k \in DOMAIN clicks : clicks[k].button = name }

BannerSeen   == << ".alert-success", "visible" >> \in observed
BannerTextOk == << ".alert-success", SuccessText >> \in observed

\* What a passed expect(...) statement leaves in observed.
ObservationOf(s) ==
    IF s.op = "expect_visible" THEN << s.target[2], "visible" >>
    ELSE << s.target[2], s.value >>

\* ------------------------------------------------------------------------
\* C1: whenever the browser was launched, it is closed by the time run ends,
\* whether the statements succeeded or one of them raised (new_page and the
\* page.on registrations included).
C1_BrowserClosedWhenRunEnds ==
    (RunEnded /\ launches > 0) => browser = "closed"

\* C2: the devolution run returns without an exception only if, after the
\* click on "Salvar Devolução", .alert-success was observed visible and was
\* observed to contain "Devolução registrada com sucesso!"; a run in which
\* one of the two observations is missing ends with an exception.
C2_ReturnsOnlyAfterSuccessBanner ==
    (Devolution /\ RunEnded /\ NoException) =>
        /\ BannerSeen
        /\ BannerTextOk
        /\ ClicksOf("Salvar Devolução") # {}
        /\ AllBefore(StmtsAt("click", Button("Salvar Devolução")),
                     StmtsAt("expect_visible", success_alert)
                       \cup StmtsAt("expect_text", success_alert))

C2_Witness ==
    /\ Devolution /\ RunEnded /\ NoException
    /\ BannerSeen /\ BannerTextOk
    /\ banner = << "Sucesso:", SuccessText >>

C4_FailedExpectStopsScript ==
    \A i \in DOMAIN Try(script) :
        ( /\ Try(script)[i].op \in {"expect_visible", "expect_text"}
          /\ i \in Started
          /\ ObservationOf(Try(script)[i]) \notin observed )
        => /\ ~NoException
           /\ phase \in {"finally", "done"}
           /\ \A j \in Started : j <= i
           /\ files = {}

\* The banner showed but never held the success text: the text assertion
\* failed and the screenshot was not taken.
C4_Witness ==
    /\ Devolution /\ RunEnded
    /\ BannerSeen /\ ~BannerTextOk
    /\ exception = "AssertionError"
    /\ StmtsAt("expect_text", success_alert) \subseteq Started

\* C5: every run is one pass over the statements: each is executed at most
\* once and in source order, and once a statement of the try body has raised
\* no further statement is executed; browser.close() is all that follows.
C5_StraightLine ==
    /\ [](\A k \in DOMAIN trace : trace[k] = k)
    /\ []((phase = "try") => NoException)
    /\ [][ (~NoException) =>
              /\ trace' = trace
              /\ << appVars, observed, files, clock >>' =
                   << appVars, observed, files, clock >>
              /\ closeCalls' = closeCalls + 1 ]_vars

\* A run that failed in the middle of the part rows.
C5_Witness ==
    /\ Devolution /\ RunEnded
    /\ exception = "TimeoutError"
    /\ Len(trace) = 12
    /\ closeCalls = 1

\* C6: at most one browser is launched and at most one page created, the
\* page is open only while its browser is, and browser.close() is called at
\* most once.
C6_OneBrowserOnePage ==
    /\ launches <= 1
    /\ pagesCreated <= 1
    /\ closeCalls <= 1
    /\ (page = "open") => browser = "open"
    /\ (browser = "none") => page = "none"
    /\ (browser = "open") <=> (launches = 1 /\ closeCalls = 0)

C6_Witness ==
    /\ RunEnded
    /\ launches = 1 /\ pagesCreated = 1 /\ closeCalls = 1
    /\ page = "closed" /\ browser = "closed"

\* The try-body statements that navigate to u.
GotoOf(u) ==
    { i \in DOMAIN Try(script) :
        Try(script)[i].op = "goto" /\ Try(script)[i].value = u }

\* The try-body statements that act on the part row with data-part-index 1.
PartTwoStmts ==
    { i \in DOMAIN Try(script) : Try(script)[i].target[1] = part2("")[1] }

\* The devolution form the scenario submits.
ExpectedDevolutionForm ==
    [f \in Fields |->
        CASE f = part1("Código da Peça")    -> "PART-001"
          [] f = part1("Quantidade")        -> "1"
          [] f = part1("Descrição da Peça") -> "Part 1 Description"
          [] f = part2("Código da Peça")    -> "PART-002"
          [] f = part2("Quantidade")        -> "2"
          [] f = part2("Descrição da Peça") -> "Part 2 Description"
          [] f = ByLabel("Cliente")             -> "Test Client"
          [] f = ByLabel("Requisição de Venda") -> "REQ-123"
          [] f = ByLabel("Ação na Requisição")  -> "Alterada"
          [] f = ByLabel("Data da Venda")       -> "2023-01-01"
          [] f = ByLabel("Data da Devolução")   -> "2023-01-02"
          [] OTHER -> ""]

\* C7: in the devolution run the client form ("Test Client", "Cliente") is
\* submitted and the 2-second wait is over before the navigation to
\* cadastro.html; "Adicionar Peça" is clicked exactly once before any field of
\* the part row 1 is filled; and "Salvar Devolução" is clicked only with both
\* part rows and the five common fields set to the scenario's values.
C7_DevolutionStepsOrdered ==
    Devolution =>
        /\ (GotoOf(CadastroUrl) \cap Started # {}) =>
              /\ ClicksOf("Salvar") = {1}
              /\ clicks[1].url = PessoasUrl
              /\ clicks[1].form[ByLabel("Nome Completo")] = "Test Client"
              /\ clicks[1].form[ByLabel("Tipo")] = "Cliente"
              /\ clock = 2000
              /\ AllBefore(StmtsAt("wait_for_timeout", ThePage), GotoOf(CadastroUrl))
        /\ Cardinality(ClicksOf("Adicionar Peça")) <= 1
        /\ (PartTwoStmts \cap Started # {}) =>
              /\ Cardinality(ClicksOf("Adicionar Peça")) = 1
              /\ AllBefore(StmtsAt("click", Button("Adicionar Peça")), PartTwoStmts)
        /\ (StmtsAt("click", Button("Salvar Devolução")) \cap Started # {}) =>
              form = ExpectedDevolutionForm
        /\ \A k \in ClicksOf("Salvar Devolução") :
              /\ clicks[k].url = CadastroUrl
              /\ clicks[k].form = ExpectedDevolutionForm

C7_Witness ==
    /\ Devolution
    /\ ClicksOf("Salvar Devolução") # {}
    /\ ClicksOf("Adicionar Peça") # {}
    /\ form[part2("Quantidade")] = "2"

\* C8: every run terminates: each call returns or raises, the wait ends, and
\* run reaches browser.close() and then ends.
C8_ReachesCloseAndEnds ==
    <>(RunEnded /\ (launches > 0 => closeCalls = 1))

\* Every run ends, and a run that entered the try block called browser.close().
C8_Terminates ==
    <>(RunEnded /\ (pagesCreated > 0 => closeCalls = 1))

\* C9: the screenshot is written only after both assertions on the success
\* banner have passed and while the browser is still open; a run in which a
\* statement raised has written no screenshot.
C9_ScreenshotOnlyAfterAssertions ==
    /\ []((files # {}) =>
            /\ Devolution
            /\ files = {ScreenshotPath}
            /\ BannerSeen /\ BannerTextOk)
    /\ []((~NoException) => files = {})
    /\ [][ (files' # files) =>
              /\ browser = "open" /\ page = "open" /\ closeCalls = 0
              /\ BannerSeen /\ BannerTextOk
              /\ NoException /\ NoException' ]_vars

C9_Witness ==
    /\ Devolution /\ RunEnded /\ NoException
    /\ files = {ScreenshotPath}
    /\ browser = "closed"

\* C10: in add_client, once the "Salvar" click has returned the run ends
\* without an exception whether the page raised an alert or not: whatever the
\* number of alerts, a missing alert is not detected as a failure.
C10_OutcomeIgnoresAlert ==
    \A n \in 0..MaxDialogs :
        (AddClient /\ RunEnded /\ ClicksOf("Salvar") # {} /\ dialogsShown = n) =>
            /\ NoException
            /\ clock = 2000

\* The click returned, no alert was ever raised, and run returned normally.
C10_Witness ==
    /\ AddClient /\ RunEnded /\ NoException
    /\ ClicksOf("Salvar") # {}
    /\ dialogsShown = 0
    /\ dialogLog = << >>

====
